---- MODULE Spec2Model ----
(***************************************************************************)
(* A model of the n-body simulation core: the sub-step controller          *)
(* (physics.rs: apply_physics, update_acceleration,                        *)
(* update_velocity_and_positions, change_selection_without_update,         *)
(* SubSteps) and the orbit trail manager (orbit_lines.rs: update_lines,    *)
(* draw_orbit_line, clean_orbit_lines).                                    *)
(*                                                                         *)
(* Abstractions.  Space is one-dimensional.  An f64/f32 value is an        *)
(* integer or NaN: Fin(v) = <<v>>, NaN = <<>>; a quotient is truncated.    *)
(* The f64 -> f32 conversion as_vec3 is exact on the integers used here    *)
(* (all far below 2^24).  Entities are 1..3 in query iteration order;      *)
(* DespawnedEntity is an id the queries no longer hold.                    *)
(***************************************************************************)
EXTENDS Integers, Sequences, FiniteSets

(* ------------------------------ bounds --------------------------------- *)
MaxStepOps == 11
MaxSubSteps == 2
MaxFrames == 2
MaxPoints == 2
MaxDelta == 1

(* ------------------------- program constants --------------------------- *)
\* crate::constants (imported physics.rs:11); representative model values
G == 4
M_TO_UNIT == 2
DEFAULT_SUB_STEPS == 1
\* Speed.0 (crate::speed::Speed)
SPEED == 1
\* MULTIPLIER = 0.0001 = 1 / MULTIPLIER_INV (orbit_lines.rs:34)
MULTIPLIER_INV == 10000
\* i32::MAX, the width of SubSteps.0
I32_MAX == 2147483647
\* the 16-bit limb of the 32-bit product below
LIMB == 65536

Bodies == {1, 2, 3}
NumBodies == Cardinality(Bodies)
None == 0
DespawnedEntity == 4
Entities == Bodies \cup {DespawnedEntity}

(* ------------------------------ numbers -------------------------------- *)
NaN == <<>>
Fin(v) == <<v>>
IsNaN(x) == x = NaN
ZERO == Fin(0)

TruncDiv(n, d) == IF n >= 0 THEN n \div d ELSE -((-n) \div d)

FAdd(a, b) == IF IsNaN(a) \/ IsNaN(b) THEN NaN ELSE Fin(a[1] + b[1])
FSub(a, b) == IF IsNaN(a) \/ IsNaN(b) THEN NaN ELSE Fin(a[1] - b[1])
FNeg(a) == IF IsNaN(a) THEN NaN ELSE Fin(-a[1])
FScale(a, k) == IF IsNaN(a) THEN NaN ELSE Fin(a[1] * k)
\* a / m for a mass m > 0
FDivMass(a, m) == IF IsNaN(a) THEN NaN ELSE Fin(TruncDiv(a[1], m))
\* DVec3::normalize: v * (1 / |v|); 0 * inf = NaN
Normalize(a) ==
    IF IsNaN(a) \/ a = ZERO THEN NaN
    ELSE IF a[1] > 0 THEN Fin(1) ELSE Fin(-1)

(* ---------------------- 32-bit wrapping arithmetic --------------------- *)
\* x * k in i32 with wrap-around (release build), on 16-bit limbs
WrappingMul(x, k) ==
    LET hi == (x \div LIMB) % LIMB
        lo == x % LIMB
        lo2 == lo * k
        nlo == lo2 % LIMB
        nhi == (hi * k + lo2 \div LIMB) % LIMB
    IN  IF nhi >= LIMB \div 2 THEN (nhi - LIMB) * LIMB + nlo
        ELSE nhi * LIMB + nlo

\* whether x * k leaves the i32 range (debug build: panic)
MulOverflows(x, k) ==
    \/ x > I32_MAX \div k
    \/ x < -((I32_MAX \div k) + (IF I32_MAX % k = k - 1 THEN 1 ELSE 0))

Max(a, b) == IF a >= b THEN a ELSE b

VARIABLES
    \* components of the bodies
    mass, sim_pos, velocity, acceleration, transform, force_direction,
    draw_lines, lines, step, max_points, period, children,
    \* resources
    pause, sub_steps, selected_entity, orbit_offset, nbody_steps, delta,
    \* the build: TRUE when integer overflow panics (debug), FALSE when it wraps
    overflow_checks,
    \* control: the system about to run, the sub-step index, a panic
    pc, i, panicked,
    \* history: integrations per body in this invocation, systems run in this
    \* frame, frames run, SubSteps operations applied, segments drawn
    \* and points clean_orbit_lines removed per body in this frame
    integrated, log, frame, nOps, gizmos, removed

bodyVars == <<mass, sim_pos, velocity, acceleration, transform, force_direction>>
trailVars == <<draw_lines, lines, step, max_points, period, children>>
physRes == <<selected_entity, orbit_offset, nbody_steps>>
ctlVars == <<pc, i, integrated, log, frame, gizmos, removed>>
vars == <<mass, sim_pos, velocity, acceleration, transform, force_direction,
          draw_lines, lines, step, max_points, period, children,
          pause, sub_steps, selected_entity, orbit_offset, nbody_steps, delta,
          overflow_checks, pc, i, panicked, integrated, log, frame, nOps, gizmos,
          removed>>

(* ============================ SubSteps ================================= *)
\* self.0 *= k
StepUp(k) ==
    /\ ~panicked
    /\ nOps < MaxStepOps
    /\ nOps' = nOps + 1
    /\ IF overflow_checks /\ MulOverflows(sub_steps, k)
       THEN panicked' = TRUE /\ UNCHANGED sub_steps
       ELSE sub_steps' = WrappingMul(sub_steps, k) /\ UNCHANGED panicked

\* self.0 = max(self.0 / k, 1)
StepDown(k) ==
    /\ ~panicked
    /\ nOps < MaxStepOps
    /\ nOps' = nOps + 1
    /\ sub_steps' = Max(TruncDiv(sub_steps, k), 1)
    /\ UNCHANGED panicked

stepsFrame == <<bodyVars, trailVars, physRes, ctlVars, pause, delta, overflow_checks>>

small_step_up == StepUp(2) /\ UNCHANGED stepsFrame
big_step_up == StepUp(10) /\ UNCHANGED stepsFrame
small_step_down == StepDown(2) /\ UNCHANGED stepsFrame
big_step_down == StepDown(10) /\ UNCHANGED stepsFrame

\* the debug window's "debug sub steps" button
debug_sub_steps ==
    /\ ~panicked
    /\ nOps < MaxStepOps
    /\ nOps' = nOps + 1
    /\ sub_steps' = 1
    /\ UNCHANGED <<stepsFrame, panicked>>

(* ======================== Force Accumulator ============================ *)
\* the force on a body at sim_pos_ from a body at other_sim_pos
\* (0 / 0 and NaN * inf are NaN: two bodies at one position)
Force(mass_, other_mass, sim_pos_, other_sim_pos) ==
    LET distance == FSub(other_sim_pos, sim_pos_)
    IN  IF IsNaN(distance) THEN NaN
        ELSE LET r_sq == distance[1] * distance[1]
                 force_direction_ == Normalize(distance)
             IN  IF r_sq = 0 THEN NaN
                 ELSE FScale(force_direction_,
                             TruncDiv(G * mass_ * other_mass, r_sq))

\* the inner loop over other_bodies (the bodies pushed so far, 1 .. k-1)
RECURSIVE OtherBodiesLoop(_, _, _)
OtherBodiesLoop(st, k, j) ==
    IF j >= k THEN st
    ELSE LET force == Force(mass[k], mass[j], sim_pos[k], sim_pos[j])
         IN  OtherBodiesLoop([st EXCEPT !.acc[k] = FAdd(@, force),
                                        !.acc[j] = FSub(@, force),
                                        !.steps = @ + 1], k, j + 1)

\* acc.0 = DVec3::ZERO at the start of a body's visit
ResetAcc(st, k) == [st EXCEPT !.acc[k] = ZERO]

\* the outer loop over query.iter_mut()
RECURSIVE QueryLoop(_, _)
QueryLoop(st, k) ==
    IF k > NumBodies THEN st
    ELSE QueryLoop(OtherBodiesLoop(ResetAcc(st, k), k, 1), k + 1)

update_acceleration ==
    LET st == QueryLoop([acc |-> acceleration, steps |-> nbody_steps], 1)
    IN  /\ acceleration' = st.acc
        /\ nbody_steps' = st.steps

(* ====================== Integrator / Recenterer ======================== *)
\* query.get_mut(selected) succeeds, under recentering
SelectedInQuery ==
    /\ selected_entity # None
    /\ orbit_offset.enabled
    /\ selected_entity \in Bodies

\* mutant: the loop visits the selected entity too
SkipsSelected_never(b) == FALSE

\* the loop's `continue` for the selected entity
SkipsSelected(b) == orbit_offset.enabled /\ selected_entity = b

\* one body's velocity and position step
IntegrateBody(st, b) ==
    LET fd == Normalize(st.acc[b])
        acc == FDivMass(st.acc[b], mass[b])
        vel == FAdd(st.vel[b], FScale(acc, delta * SPEED))
        pos == FAdd(st.pos[b], FScale(vel, delta * SPEED))
    IN  [st EXCEPT !.fd[b] = fd, !.acc[b] = acc, !.vel[b] = vel,
                   !.pos[b] = pos, !.steps = @ + 1, !.cnt[b] = @ + 1]

\* mutant: the position is not scaled to display units
Translation_unscaled(pos, offset) == FAdd(pos, offset)

\* pos_without_offset + offset
Translation(pos, offset) == FAdd(FScale(pos, M_TO_UNIT), offset)

\* mutant: the selected body's transform is not reset
IntegrateSelected_unpinned(st) ==
    IF SelectedInQuery
    THEN LET s == selected_entity
             st1 == IntegrateBody(st, s)
             raw_translation == FScale(st1.pos[s], M_TO_UNIT)
         IN  [st1 EXCEPT !.offset = FNeg(raw_translation)]
    ELSE [st EXCEPT !.offset = ZERO]

\* the offset of update_velocity_and_positions: the selected body is
\* integrated first and pinned at the origin
IntegrateSelected(st) ==
    IF SelectedInQuery
    THEN LET s == selected_entity
             st1 == IntegrateBody(st, s)
             raw_translation == FScale(st1.pos[s], M_TO_UNIT)
         IN  [st1 EXCEPT !.tr[s] = ZERO, !.offset = FNeg(raw_translation)]
    ELSE [st EXCEPT !.offset = ZERO]

RECURSIVE IntegrateLoop(_, _)
IntegrateLoop(st, b) ==
    IF b > NumBodies THEN st
    ELSE IF SkipsSelected(b) THEN IntegrateLoop(st, b + 1)
    ELSE LET st1 == IntegrateBody(st, b)
         IN  IntegrateLoop(
                 [st1 EXCEPT !.tr[b] = Translation(st1.pos[b], st1.offset)],
                 b + 1)

\* orbit_offset.value after either pass
StoredOffset(offset) == IF orbit_offset.enabled THEN offset ELSE ZERO

update_velocity_and_positions ==
    LET st0 == [acc |-> acceleration, vel |-> velocity, pos |-> sim_pos,
                fd |-> force_direction, tr |-> transform, offset |-> ZERO,
                steps |-> nbody_steps, cnt |-> integrated]
        st == IntegrateLoop(IntegrateSelected(st0), 1)
    IN  /\ acceleration' = st.acc
        /\ velocity' = st.vel
        /\ sim_pos' = st.pos
        /\ force_direction' = st.fd
        /\ transform' = st.tr
        /\ nbody_steps' = st.steps
        /\ integrated' = st.cnt
        /\ orbit_offset' = [orbit_offset EXCEPT !.value = StoredOffset(st.offset)]

\* mutant: the paused path keeps the integrator's position step
SelectionOffset_integrates(st) ==
    IF SelectedInQuery
    THEN LET s == selected_entity
             pos == FAdd(st.pos[s], FScale(st.vel[s], delta * SPEED))
             raw_translation == FScale(pos, M_TO_UNIT)
         IN  [st EXCEPT !.pos[s] = pos, !.tr[s] = ZERO,
                        !.offset = FNeg(raw_translation)]
    ELSE [st EXCEPT !.offset = ZERO]

\* the offset of change_selection_without_update
SelectionOffset(st) ==
    IF SelectedInQuery
    THEN LET s == selected_entity
             raw_translation == FScale(st.pos[s], M_TO_UNIT)
         IN  [st EXCEPT !.tr[s] = ZERO, !.offset = FNeg(raw_translation)]
    ELSE [st EXCEPT !.offset = ZERO]

RECURSIVE SelectionLoop(_, _)
SelectionLoop(st, b) ==
    IF b > NumBodies THEN st
    ELSE IF SkipsSelected(b) THEN SelectionLoop(st, b + 1)
    ELSE SelectionLoop(
             [st EXCEPT !.tr[b] = Translation(st.pos[b], st.offset)], b + 1)

change_selection_without_update ==
    LET st0 == [pos |-> sim_pos, vel |-> velocity, tr |-> transform,
                offset |-> ZERO]
        st == SelectionLoop(SelectionOffset(st0), 1)
    IN  /\ sim_pos' = st.pos
        /\ velocity' = st.vel
        /\ transform' = st.tr
        /\ orbit_offset' = [orbit_offset EXCEPT !.value = StoredOffset(st.offset)]

(* ========================= Sub-step Controller ========================= *)
physFrame == <<trailVars, pause, sub_steps, selected_entity, delta,
               overflow_checks, panicked, frame, nOps, gizmos, removed, mass>>

\* apply_physics, paused: the selection-only path
apply_physics_paused(next) ==
    /\ pc = "apply_physics" /\ ~panicked
    /\ pause
    /\ change_selection_without_update
    /\ pc' = next
    /\ log' = Append(log, "change_selection_without_update")
    /\ UNCHANGED <<physFrame, acceleration, force_direction, nbody_steps,
                   i, integrated>>

\* apply_physics, not paused: nbody_stats.steps = 0 and the loop's entry
apply_physics_begin(next) ==
    /\ pc = "apply_physics" /\ ~panicked
    /\ ~pause
    /\ nbody_steps' = 0
    /\ i' = 0
    /\ integrated' = [b \in Bodies |-> 0]
    /\ pc' = IF 0 < sub_steps THEN "update_acceleration" ELSE next
    /\ UNCHANGED <<physFrame, bodyVars, orbit_offset, log>>

sub_step_acceleration ==
    /\ pc = "update_acceleration" /\ ~panicked
    /\ update_acceleration
    /\ pc' = "update_velocity_and_positions"
    /\ log' = Append(log, "update_acceleration")
    /\ UNCHANGED <<physFrame, sim_pos, velocity, transform, force_direction,
                   orbit_offset, i, integrated>>

sub_step_integrate(next) ==
    /\ pc = "update_velocity_and_positions" /\ ~panicked
    /\ update_velocity_and_positions
    /\ i' = i + 1
    /\ pc' = IF i + 1 < sub_steps THEN "update_acceleration" ELSE next
    /\ log' = Append(log, "update_velocity_and_positions")
    /\ UNCHANGED physFrame

(* ========================= Orbit Trail Manager ========================= *)
\* the scene: a star, a planet and a moon
IsPlanet(b) == b = 2
IsMoon(b) == b = 3

\* planet_query.iter().find(|..| children.0.contains(&entity))
ParentOf(b) ==
    LET ps == {p \in Bodies : IsPlanet(p) /\ b \in children[p]}
    IN  IF ps = {} THEN None ELSE CHOOSE p \in ps : \A q \in ps : p <= q

\* orbit.step >= (orbit.period / (speed * substeps)) * MULTIPLIER
ReachedMaxStep(step_, period_) ==
    LET speed == SPEED * sub_steps
    IN  IF speed > 0 THEN step_ * speed * MULTIPLIER_INV >= period_
        ELSE IF speed = 0 THEN FALSE
        ELSE TRUE

\* the point a body's sample stores
SamplePoint(b) ==
    IF IsPlanet(b) THEN FScale(sim_pos[b], M_TO_UNIT)
    ELSE FSub(FScale(sim_pos[b], M_TO_UNIT),
              FScale(sim_pos[ParentOf(b)], M_TO_UNIT))

\* whether update_lines visits the body's sampling branch
Samples(b) ==
    /\ draw_lines[b]
    /\ \/ IsPlanet(b)
       \/ IsMoon(b) /\ ParentOf(b) # None

update_lines ==
    IF pause
    THEN UNCHANGED <<lines, step>>
    ELSE /\ lines' = [b \in Bodies |->
                        IF Samples(b) /\ ReachedMaxStep(step[b], period[b])
                        THEN Append(lines[b], SamplePoint(b))
                        ELSE lines[b]]
         /\ step' = [b \in Bodies |->
                        IF ~Samples(b) THEN step[b]
                        ELSE IF ReachedMaxStep(step[b], period[b]) THEN 0
                        ELSE step[b] + delta]

\* draw_lines: one segment per stored point
DrawnSegments(b) == IF Samples(b) THEN Len(lines[b]) ELSE 0

RECURSIVE SumSegments(_)
SumSegments(b) == IF b > NumBodies THEN 0 ELSE DrawnSegments(b) + SumSegments(b + 1)

draw_orbit_line == gizmos' = SumSegments(1)

\* while orbit.lines.len() as i32 >= orbit.max_points { orbit.lines.remove(0); }
\* Vec::remove panics on an empty vector
RECURSIVE PruneLoop(_, _)
PruneLoop(l, mx) ==
    IF Len(l) >= mx
    THEN IF l = <<>> THEN [lines |-> l, panic |-> TRUE]
         ELSE PruneLoop(Tail(l), mx)
    ELSE [lines |-> l, panic |-> FALSE]

\* mutant: pruning starts one point late
CleanBody_late(l, draw, mx) ==
    IF draw
    THEN IF Len(l) > mx + 1 THEN PruneLoop(l, mx)
         ELSE [lines |-> l, panic |-> FALSE]
    ELSE [lines |-> <<>>, panic |-> FALSE]

\* mutant: a trail whose flag is off is not cleared
CleanBody_keeps(l, draw, mx) ==
    IF draw
    THEN IF Len(l) > mx THEN PruneLoop(l, mx)
         ELSE [lines |-> l, panic |-> FALSE]
    ELSE [lines |-> l, panic |-> FALSE]

\* one body's visit in clean_orbit_lines
CleanBody(l, draw, mx) ==
    IF draw
    THEN IF Len(l) > mx THEN PruneLoop(l, mx)
         ELSE [lines |-> l, panic |-> FALSE]
    ELSE [lines |-> <<>>, panic |-> FALSE]

RECURSIVE CleanLoop(_, _)
CleanLoop(st, b) ==
    IF b > NumBodies \/ st.panic THEN st
    ELSE LET r == CleanBody(st.lines[b], draw_lines[b], max_points[b])
         IN  CleanLoop([lines |-> [st.lines EXCEPT ![b] = r.lines],
                        panic |-> r.panic], b + 1)

clean_orbit_lines ==
    LET st == CleanLoop([lines |-> lines, panic |-> FALSE], 1)
    IN  /\ lines' = st.lines
        /\ panicked' = st.panic
        /\ removed' = [b \in Bodies |-> Len(lines[b]) - Len(st.lines[b])]

trailFrame == <<bodyVars, physRes, pause, sub_steps, delta, overflow_checks,
                i, integrated, frame, nOps, draw_lines, max_points, period,
                children>>

sys_update_lines ==
    /\ pc = "update_lines" /\ ~panicked
    /\ update_lines
    /\ pc' = "draw_orbit_line"
    /\ log' = Append(log, "update_lines")
    /\ UNCHANGED <<trailFrame, gizmos, panicked, removed>>

sys_draw_orbit_line ==
    /\ pc = "draw_orbit_line" /\ ~panicked
    /\ draw_orbit_line
    /\ pc' = "clean_orbit_lines"
    /\ log' = Append(log, "draw_orbit_line")
    /\ UNCHANGED <<trailFrame, lines, step, panicked, removed>>

sys_clean_orbit_lines(next) ==
    /\ pc = "clean_orbit_lines" /\ ~panicked
    /\ clean_orbit_lines
    /\ pc' = IF panicked' THEN pc ELSE next
    /\ log' = Append(log, "clean_orbit_lines")
    /\ UNCHANGED <<trailFrame, step, gizmos>>

(* ======================= the frame and its inputs ====================== *)
Deltas == 1 .. MaxDelta

\* the start of a frame: Time is updated, then the first system runs
time_system(next, bounded) ==
    /\ pc \in {"FrameEnd", "Input"} /\ ~panicked
    /\ bounded => frame < MaxFrames
    /\ frame' = IF bounded THEN frame + 1 ELSE frame
    /\ delta' \in Deltas
    /\ log' = <<>>
    /\ removed' = [b \in Bodies |-> 0]
    /\ pc' = next
    /\ UNCHANGED <<bodyVars, trailVars, physRes, pause, sub_steps,
                   overflow_checks, i, panicked, integrated, nOps, gizmos>>

inputFrame == <<bodyVars, nbody_steps, sub_steps, delta, overflow_checks, i,
                panicked, integrated, log, frame, nOps, gizmos, removed, lines,
                step,
                max_points, period, children>>

AtInput == pc \in {"FrameEnd", "Input"} /\ ~panicked

TogglePause ==
    /\ AtInput
    /\ pause' = ~pause
    /\ pc' = "Input"
    /\ UNCHANGED <<inputFrame, selected_entity, orbit_offset, draw_lines>>

Select(e) ==
    /\ AtInput
    /\ selected_entity # e
    /\ selected_entity' = e
    /\ pc' = "Input"
    /\ UNCHANGED <<inputFrame, pause, orbit_offset, draw_lines>>

ToggleRecentering ==
    /\ AtInput
    /\ orbit_offset' = [orbit_offset EXCEPT !.enabled = ~@]
    /\ pc' = "Input"
    /\ UNCHANGED <<inputFrame, pause, selected_entity, draw_lines>>

ToggleDrawLines(b) ==
    /\ AtInput
    /\ draw_lines' = [draw_lines EXCEPT ![b] = ~@]
    /\ pc' = "Input"
    /\ UNCHANGED <<inputFrame, pause, selected_entity, orbit_offset>>

(* ---------------------------- initial state ---------------------------- *)
InitBodies ==
    /\ mass = [b \in Bodies |-> 1]
    /\ sim_pos = [b \in Bodies |-> Fin(0)]
    /\ velocity = [b \in Bodies |-> ZERO]
    /\ acceleration = [b \in Bodies |-> ZERO]
    /\ transform = [b \in Bodies |-> ZERO]
    /\ force_direction = [b \in Bodies |-> ZERO]

InitCommon ==
    /\ pause = FALSE
    /\ selected_entity = None
    /\ orbit_offset = [value |-> ZERO, enabled |-> TRUE]
    /\ nbody_steps = 0
    /\ delta = 0
    /\ i = 0
    /\ panicked = FALSE
    /\ integrated = [b \in Bodies |-> 0]
    /\ log = <<>>
    /\ frame = 0
    /\ nOps = 0
    /\ gizmos = 0
    /\ removed = [b \in Bodies |-> 0]

InitTrailsOff ==
    /\ draw_lines = [b \in Bodies |-> FALSE]
    /\ lines = [b \in Bodies |-> <<>>]
    /\ step = [b \in Bodies |-> 0]
    /\ max_points = [b \in Bodies |-> 1]
    /\ period = [b \in Bodies |-> 0]
    /\ children = [b \in Bodies |-> {}]

InitSteps ==
    /\ InitBodies /\ InitCommon /\ InitTrailsOff
    /\ pc = "Input"
    /\ sub_steps = DEFAULT_SUB_STEPS
    /\ overflow_checks \in BOOLEAN

NextSteps ==
    \/ small_step_up
    \/ big_step_up
    \/ small_step_down
    \/ big_step_down
    \/ debug_sub_steps

SpecSteps == InitSteps /\ [][NextSteps]_vars

(* ----------------------- the controller's frames ----------------------- *)
InitPhys ==
    /\ InitCommon /\ InitTrailsOff
    /\ mass \in {<<1, 1, 1>>, <<2, 1, 1>>}
    /\ sim_pos = <<Fin(0), Fin(2), Fin(6)>>
    /\ velocity \in {<<ZERO, ZERO, ZERO>>, <<ZERO, ZERO, Fin(-1)>>}
    /\ acceleration = [b \in Bodies |-> ZERO]
    /\ transform = [b \in Bodies |-> ZERO]
    /\ force_direction = [b \in Bodies |-> ZERO]
    /\ pc = "FrameEnd"
    \* a positive count (SpecSteps covers how the counter can leave that range)
    /\ sub_steps \in 1 .. MaxSubSteps
    /\ overflow_checks = FALSE

NextPhys ==
    \/ time_system("apply_physics", TRUE)
    \/ apply_physics_paused("FrameEnd")
    \/ apply_physics_begin("FrameEnd")
    \/ sub_step_acceleration
    \/ sub_step_integrate("FrameEnd")
    \/ TogglePause
    \/ \E e \in Entities \cup {None} : Select(e)
    \/ ToggleRecentering

SpecPhys == InitPhys /\ [][NextPhys]_vars

(* --------------------- the trail manager's frames ---------------------- *)
MaxPointsValues == (0 - 1) .. MaxPoints
PeriodValues == {0, 2 * MULTIPLIER_INV}

InitTrail ==
    /\ InitCommon
    /\ mass = [b \in Bodies |-> 1]
    /\ sim_pos = <<Fin(0), Fin(2), Fin(3)>>
    /\ velocity = [b \in Bodies |-> ZERO]
    /\ acceleration = [b \in Bodies |-> ZERO]
    /\ transform = [b \in Bodies |-> ZERO]
    /\ force_direction = [b \in Bodies |-> ZERO]
    /\ draw_lines = [b \in Bodies |-> TRUE]
    /\ lines = [b \in Bodies |-> <<>>]
    /\ step = [b \in Bodies |-> 0]
    /\ max_points \in {m \in [Bodies -> MaxPointsValues] : m[1] = MaxPoints}
    /\ period \in {p \in [Bodies -> PeriodValues] : p[1] = 0}
    /\ children \in {<<{}, {}, {}>>, <<{}, {3}, {}>>}
    /\ pc = "FrameEnd"
    /\ sub_steps = DEFAULT_SUB_STEPS
    /\ overflow_checks = FALSE

NextTrail ==
    \/ time_system("update_lines", FALSE)
    \/ sys_update_lines
    \/ sys_draw_orbit_line
    \/ sys_clean_orbit_lines("FrameEnd")
    \/ TogglePause
    \/ \E b \in Bodies : ToggleDrawLines(b)

SpecTrail == InitTrail /\ [][NextTrail]_vars

(* ------------- a whole frame: PreUpdate, then Update ------------------- *)
InitFrame ==
    /\ InitCommon
    /\ mass = <<1, 1, 1>>
    /\ sim_pos = <<Fin(0), Fin(2), Fin(6)>>
    /\ velocity \in {<<ZERO, ZERO, ZERO>>, <<ZERO, ZERO, Fin(-1)>>}
    /\ acceleration = [b \in Bodies |-> ZERO]
    /\ transform = [b \in Bodies |-> ZERO]
    /\ force_direction = [b \in Bodies |-> ZERO]
    /\ draw_lines = [b \in Bodies |-> TRUE]
    /\ lines = [b \in Bodies |-> <<>>]
    /\ step = [b \in Bodies |-> 0]
    /\ max_points = [b \in Bodies |-> MaxPoints]
    /\ period \in {p \in [Bodies -> PeriodValues] : p[1] = 0 /\ p[3] = 0}
    /\ children = <<{}, {3}, {}>>
    /\ pc = "FrameEnd"
    /\ sub_steps \in 1 .. MaxSubSteps
    /\ overflow_checks = FALSE

\* the engine runs the PreUpdate schedule before the Update schedule
NextFrame ==
    \/ time_system("update_lines", TRUE)
    \/ sys_update_lines
    \/ sys_draw_orbit_line
    \/ sys_clean_orbit_lines("apply_physics")
    \/ apply_physics_paused("FrameEnd")
    \/ apply_physics_begin("FrameEnd")
    \/ sub_step_acceleration
    \/ sub_step_integrate("FrameEnd")
    \/ TogglePause
    \/ \E b \in Bodies : ToggleDrawLines(b)

SpecFrame == InitFrame /\ [][NextFrame]_vars

(* =============================== claims ================================ *)
\* the controller has just returned in this frame
Returned == pc = "FrameEnd" /\ log # <<>>
ReturnedUnpaused == Returned /\ ~pause
\* a sub-step has just completed
AfterSubStep ==
    \/ pc = "update_acceleration" /\ i > 0
    \/ ReturnedUnpaused

(* C1: after every trail manager invocation, a body that draws its trail and
   has max_points >= 1 holds at most max_points points. *)
C1_TrailBound ==
    (pc = "FrameEnd" /\ ~panicked) =>
        \A b \in Bodies :
            (draw_lines[b] /\ max_points[b] >= 1) =>
                Len(lines[b]) <= max_points[b]

\* an invocation has pruned the trail of such a body
C1_Witness ==
    /\ pc = "FrameEnd" /\ ~panicked
    /\ \E b \in Bodies :
          draw_lines[b] /\ max_points[b] >= 1 /\ removed[b] > 0

(* C2: a trail whose draw flag is false is empty after every trail manager
   invocation, paused or not, and no step adds a point to it. *)
C2_TrailCleared ==
    /\ [](pc = "FrameEnd" => \A b \in Bodies : ~draw_lines[b] => lines[b] = <<>>)
    /\ [][\A b \in Bodies :
             ~draw_lines[b] => Len(lines'[b]) <= Len(lines[b])]_vars

\* a paused invocation has cleared the points of a trail whose flag is off
C2_Witness ==
    /\ pc = "FrameEnd" /\ pause
    /\ \E b \in Bodies : ~draw_lines[b] /\ removed[b] > 0 /\ lines[b] = <<>>

(* C3: while paused is true, no step (a controller invocation, a selection
   change, a recentering change) changes a body's position or velocity. *)
C3_PauseFrame ==
    [][pause => (sim_pos' = sim_pos /\ velocity' = velocity)]_vars

\* a paused invocation has recentered on a moving body selected while paused
C3_Witness ==
    /\ Returned /\ pause
    /\ SelectedInQuery
    /\ velocity[selected_entity] # ZERO
    /\ orbit_offset.value # ZERO

(* C4: with recentering enabled and an existing body selected, that body's
   render position is the origin after a paused invocation and after every
   sub-step. *)
C4_SelectedAtOrigin ==
    ((Returned /\ pause) \/ AfterSubStep) =>
        (SelectedInQuery => transform[selected_entity] = ZERO)

\* a sub-step has pinned a selected body whose position is not the origin
C4_Witness ==
    /\ AfterSubStep
    /\ SelectedInQuery
    /\ sim_pos[selected_entity] # ZERO
    /\ transform[selected_entity] = ZERO
    /\ \E b \in Bodies : transform[b] # ZERO

(* C6: every sub-step integrates every body exactly once, so a body has been
   integrated i times after i sub-steps and sub_steps times when an unpaused
   invocation returns. *)
C6_IntegratedOnce ==
    /\ pc \in {"update_acceleration", "update_velocity_and_positions"} =>
           \A b \in Bodies : integrated[b] = i
    /\ ReturnedUnpaused => \A b \in Bodies : integrated[b] = sub_steps

\* two sub-steps have run with recentering on an existing selected body
C6_Witness ==
    /\ ReturnedUnpaused
    /\ SelectedInQuery
    /\ sub_steps = 2
    /\ \A b \in Bodies : integrated[b] = 2

\* the offset the claim gives
ClaimedOffset ==
    IF SelectedInQuery
    THEN FNeg(FScale(sim_pos[selected_entity], M_TO_UNIT))
    ELSE ZERO

(* C7: after every controller invocation every body's render position is its
   scaled position plus recenter_offset (for the selected body the two cancel:
   the origin), and recenter_offset is the negated scaled position of the
   selected body under recentering, zero otherwise. *)
C7_RenderTransform ==
    Returned =>
        /\ orbit_offset.value = ClaimedOffset
        /\ \A b \in Bodies :
              transform[b] =
                  IF SelectedInQuery /\ b = selected_entity THEN ZERO
                  ELSE FAdd(FScale(sim_pos[b], M_TO_UNIT), ClaimedOffset)

\* an unpaused invocation has shifted the other bodies by a non-zero offset
C7_Witness ==
    /\ ReturnedUnpaused
    /\ SelectedInQuery
    /\ orbit_offset.value # ZERO /\ ~IsNaN(orbit_offset.value)
    /\ \E b \in Bodies :
          b # selected_entity /\ transform[b] # FScale(sim_pos[b], M_TO_UNIT)

\* the planet's last sample was pushed in this frame
SampledThisFrame(b) ==
    /\ draw_lines[b] /\ step[b] = 0 /\ lines[b] # <<>>

(* C8: in an unpaused frame the force pass precedes the integration of each
   sub-step, and update_lines runs after the frame's last integration, so a
   sample holds the position the frame's physics step wrote. *)
C8_StageOrder ==
    /\ \A k \in 1 .. Len(log) :
          log[k] = "update_velocity_and_positions" =>
              (k > 1 /\ log[k - 1] = "update_acceleration")
    /\ (pc = "draw_orbit_line" /\ ~pause) =>
          \E k \in 1 .. Len(log) : log[k] = "update_velocity_and_positions"
    /\ (ReturnedUnpaused /\ SampledThisFrame(2)) =>
          lines[2][Len(lines[2])] = FScale(sim_pos[2], M_TO_UNIT)

RECURSIVE SumAcc(_)
SumAcc(b) == IF b > NumBodies THEN ZERO ELSE FAdd(acceleration[b], SumAcc(b + 1))

PairsPerPass == (NumBodies * (NumBodies - 1)) \div 2

(* C9: a force pass evaluates each unordered pair once and leaves
   accumulators whose sum is zero. *)
C9_ThirdLawPairing ==
    pc = "update_velocity_and_positions" =>
        /\ nbody_steps = (i + 1) * PairsPerPass + i * NumBodies
        /\ SumAcc(1) = ZERO

(* C10: clean_orbit_lines never removes an element from an empty trail, for
   every max_points. *)
C10_PruneNeverFaults == ~panicked

(* C5: sub_steps stays at least 1 under every sequence of the four step
   operations on the 32-bit counter. *)
C5_SubStepsPositive == sub_steps >= 1
====
